---------------------------- MODULE Spec2Model ----------------------------
(***************************************************************************)
(* A state-machine model of main() in                                      *)
(* src/work/Simulation/opt-gsoc-nr-channel-models-error.cc: the scenario   *)
(* orchestration of an ns-3 / 5G-LENA experiment.  main() is straight-line *)
(* code; every statement (or group of adjacent statements on the same      *)
(* collaborator) is one action, and the three for-loops take one action    *)
(* per iteration.  The collaborators (ns-3 helpers) are modelled by the    *)
(* configuration the program writes into them.                             *)
(*                                                                         *)
(* Units: lengths are in decimetres (0.1 m) so that the 1.5 m terminal     *)
(* height is the integer 15; speeds are in m/s; times are in milliseconds; *)
(* frequencies are in MHz.                                                 *)
(***************************************************************************)
EXTENDS Integers, Sequences, FiniteSets, TLC

(***************************************************************************)
(* Bounds of the model.                                                    *)
(***************************************************************************)
\* largest --ueNum given on the command line (the default, 4, is also run)
MaxUes == 2
\* largest --gNbNum given on the command line (the default, 1, is also run)
MaxGnbs == 2
\* random streams NrHelper::AssignStreams consumes per base-station device
GnbStreamsPerDev == 2
\* random streams NrHelper::AssignStreams consumes per terminal device
UeStreamsPerDev == 1

(***************************************************************************)
(* The command-line flags and the variables of main() they are bound to.   *)
(***************************************************************************)
\* the flags registered by the cmd.AddValue calls before cmd.Parse
FlagsBeforeParse ==
    {"seed", "run", "channelModel", "channelConditionModel",
     "ueNum", "gNbNum", "frequency", "logging"}

\* the flags registered by the cmd.AddValue calls after cmd.Parse
FlagsAfterParse == {"errorModelType", "amcSelectionModel"}

Flags == FlagsBeforeParse \cup FlagsAfterParse

\* the variable of main() a flag is bound to by its cmd.AddValue call
VarOf(flag) ==
    CASE flag = "seed" -> "rngSeed"
      [] flag = "run" -> "rngRun"
      [] flag = "channelModel" -> "channelModel"
      [] flag = "channelConditionModel" -> "channelConditionModel"
      [] flag = "ueNum" -> "numUes"
      [] flag = "gNbNum" -> "numGnbs"
      [] flag = "frequency" -> "centralFrequency"
      [] flag = "logging" -> "logging"
      [] flag = "errorModelType" -> "errorModelType"
      [] flag = "amcSelectionModel" -> "amcSelectionModel"

\* the flag bound to a variable of main(), "" for a variable with no flag
FlagOf(var) ==
    IF \E f \in Flags : VarOf(f) = var
    THEN CHOOSE f \in Flags : VarOf(f) = var
    ELSE ""

\* the initial values of the local variables of main()
Defaults ==
    [randomStream |-> 1,
     rngSeed |-> 1,
     rngRun |-> 1,
     centralFrequency |-> 30500,
     bandwidth |-> 100,
     simTime |-> 10000,
     udpTime |-> 0,
     scenario |-> "UMa",
     channelModel |-> "ThreeGpp",
     numUes |-> 4,
     numGnbs |-> 1,
     logging |-> TRUE,
     numerology |-> 1,
     errorModelType |-> "ns3::NrEesmCcT1",
     amcSelectionModel |-> "ErrorModel",
     channelConditionModel |-> "Default"]

\* the error-model type names TypeId::LookupByName resolves
RegisteredErrorModels ==
    {"ns3::NrEesmCcT1", "ns3::NrLteMiErrorModel"}

\* the command lines the model runs: per flag, <<>> when the flag is not given
\* and <<value>> when it is; --run, --frequency and --logging are given
\* together or not at all
ArgvChoices ==
    {a \in [seed : {<<>>, <<2>>},
            run : {<<>>, <<2>>},
            channelModel : {<<>>, <<"NYU">>, <<"TwoRay">>, <<"Friis">>,
                            <<"Bogus">>},
            channelConditionModel : {<<>>, <<"LOS">>, <<"NLOS">>,
                                     <<"Buildings">>},
            ueNum : {<<>>} \cup {<<n>> : n \in 1..MaxUes},
            gNbNum : {<<>>} \cup {<<n>> : n \in 2..MaxGnbs},
            frequency : {<<>>, <<28000>>},
            logging : {<<>>, <<FALSE>>},
            errorModelType : {<<>>, <<"ns3::NrLteMiErrorModel">>,
                              <<"ns3::Bogus">>},
            amcSelectionModel : {<<>>, <<"ShannonModel">>, <<"Bogus">>}] :
        /\ (a.run = <<>>) = (a.frequency = <<>>)
        /\ (a.run = <<>>) = (a.logging = <<>>)}

VARIABLES
    argv,         \* the command line: flag -> <<>> or <<value>>
    registered,   \* the flags registered with the CommandLine object so far
    v,            \* the local variables of main()
    pc,           \* the position of main()
    log,          \* the operations main() has executed, in order
    ueIndex,      \* the loop variable of the current for-loop
    ue,           \* the mobility model of each terminal node
    hexGrid,      \* the HexagonalGridScenarioHelper
    defaults,     \* the attribute defaults set with Config::SetDefault
    nr,           \* the configuration written into the NrHelper
    ch,           \* the configuration written into the NrChannelHelper
    band,         \* the operation band
    gNbNetDev,    \* the installed base-station devices
    ueNetDev,     \* the installed terminal devices
    streams,      \* the random-stream indices assigned to each device
    fabric,       \* the remote host, its link to the PGW and the routes
    ueIpIface,    \* the IPv4 address of each terminal
    clientApps,   \* the ApplicationContainer clientApps
    serverApps,   \* the ApplicationContainer serverApps
    attached,     \* per terminal, how many times it was attached to a gNB
    sim           \* the simulator, the RNG seed manager and the process

vars ==
    <<argv, registered, v, pc, log, ueIndex, ue, hexGrid, defaults, nr, ch,
      band, gNbNetDev, ueNetDev, streams, fabric, ueIpIface, clientApps,
      serverApps, attached, sim>>

\* the variables an operation on the command line leaves alone
worldVars ==
    <<ue, hexGrid, defaults, nr, ch, band, gNbNetDev, ueNetDev, streams,
      fabric, ueIpIface, clientApps, serverApps, attached, sim>>

\* main() moves from position `from` to position `to`, having executed `op`
Goto(from, to, op) ==
    /\ pc = from
    /\ pc' = to
    /\ log' = Append(log, op)

\* the state at entry to main(), after the declarations of lines 102-125;
\* an optional value is <<>> while unset and <<value>> once set
Init ==
    /\ argv \in ArgvChoices
    /\ registered = {}
    /\ v = Defaults
    /\ pc = "AddValues"
    /\ log = <<>>
    /\ ueIndex = 0
    /\ ue = <<>>
    /\ hexGrid = [utHeight |-> <<>>, bsHeight |-> <<>>, sectorization |-> <<>>,
                  isd |-> <<>>, utNumber |-> <<>>, bsNumber |-> <<>>,
                  created |-> FALSE, ueNodes |-> {}, gNbNodes |-> {}]
    /\ defaults = [ErrorModelType |-> <<>>, AmcModel |-> <<>>,
                   MaxTxBufferSize |-> <<>>]
    /\ nr = [created |-> FALSE, epcHelper |-> FALSE,
             beamformingHelper |-> <<>>, beamformingMethod |-> <<>>,
             ueAntennaTypeId |-> <<>>, gnbAntennaTypeId |-> <<>>,
             ueAntenna |-> [NumRows |-> <<>>, NumColumns |-> <<>>,
                            AntennaElement |-> <<>>],
             gnbAntenna |-> [NumRows |-> <<>>, NumColumns |-> <<>>,
                             AntennaElement |-> <<>>],
             gnbPhy |-> [TxPower |-> <<>>, Numerology |-> <<>>],
             uePhy |-> [TxPower |-> <<>>],
             scheduler |-> [FixedMcsDl |-> <<>>, FixedMcsUl |-> <<>>],
             ulErrorModel |-> <<>>, dlErrorModel |-> <<>>,
             gnbDlAmc |-> <<>>, gnbUlAmc |-> <<>>,
             traces |-> {}]
    /\ ch = [created |-> FALSE, factories |-> <<>>, propagationFactory |-> <<>>,
             ShadowingEnabled |-> <<>>, UpdatePeriod |-> <<>>,
             assignedBands |-> 0]
    /\ band = <<>>
    /\ gNbNetDev = <<>>
    /\ ueNetDev = <<>>
    /\ streams = [gnbFirst |-> <<>>, ueFirst |-> <<>>, gnb |-> <<>>, ue |-> <<>>]
    /\ fabric = [remoteHost |-> FALSE, internetOnRemoteHost |-> FALSE,
                 p2p |-> <<>>, internetIpIfaces |-> <<>>, routes |-> {},
                 internetOnUes |-> FALSE]
    /\ ueIpIface = <<>>
    /\ clientApps = <<>>
    /\ serverApps = <<>>
    /\ attached = <<>>
    /\ sim = [logInfo |-> FALSE, stopAt |-> <<>>, seed |-> 1, run |-> 1,
              state |-> "idle", now |-> 0, runtimeReported |-> FALSE,
              aborted |-> FALSE, exit |-> <<>>]

(***************************************************************************)
(* Command line (lines 127-159).                                           *)
(***************************************************************************)
\* lines 129-143: the eight cmd.AddValue calls that precede cmd.Parse
AddValues ==
    /\ Goto("AddValues", "Parse", "AddValues")
    /\ registered' = registered \cup FlagsBeforeParse
    /\ UNCHANGED <<argv, v, ueIndex>>
    /\ UNCHANGED worldVars

\* the flags of the command line that cmd.Parse does not know
Unknown(args, known) == {f \in Flags : args[f] # <<>> /\ f \notin known}

\* the variables of main() after cmd.Parse: a registered flag that is given
\* overwrites the variable it is bound to
Parsed(vals, args, known) ==
    [x \in DOMAIN vals |->
        IF FlagOf(x) \in known /\ args[FlagOf(x)] # <<>>
        THEN args[FlagOf(x)][1]
        ELSE vals[x]]

\* line 144: cmd.Parse(argc, argv).  ns-3's CommandLine stores the value of
\* every registered flag; an argument that names no registered flag (and no
\* attribute or global value) prints the usage and ends the process with
\* exit(1).
Parse ==
    /\ Goto("Parse",
            IF Unknown(argv, registered) = {} THEN "AddLateValues"
            ELSE "UsageExit",
            "Parse")
    /\ v' = Parsed(v, argv, registered)
    /\ sim' = IF Unknown(argv, registered) = {} THEN sim
              ELSE [sim EXCEPT !.exit = <<1>>]
    /\ UNCHANGED <<argv, registered, ueIndex>>
    /\ UNCHANGED <<ue, hexGrid, defaults, nr, ch, band, gNbNetDev, ueNetDev,
                   streams, fabric, ueIpIface, clientApps, serverApps,
                   attached>>

\* lines 150-155: the two cmd.AddValue calls that follow cmd.Parse
AddLateValues ==
    /\ Goto("AddLateValues", "LogEnable", "AddLateValues")
    /\ registered' = registered \cup FlagsAfterParse
    /\ UNCHANGED <<argv, v, ueIndex>>
    /\ UNCHANGED worldVars

\* lines 156-159
LogEnable ==
    /\ Goto("LogEnable", "ConfigureHexGrid", "LogEnable")
    /\ sim' = [sim EXCEPT !.logInfo = v.logging]
    /\ UNCHANGED <<argv, registered, v, ueIndex>>
    /\ UNCHANGED <<ue, hexGrid, defaults, nr, ch, band, gNbNetDev, ueNetDev,
                   streams, fabric, ueIpIface, clientApps, serverApps,
                   attached>>

(***************************************************************************)
(* TopologyGenerator (lines 162-219).                                      *)
(***************************************************************************)
\* lines 169-183: the scenario parameters
ConfigureHexGrid ==
    /\ Goto("ConfigureHexGrid", "CreateScenario", "ConfigureHexGrid")
    /\ hexGrid' = [hexGrid EXCEPT !.utHeight = <<15>>, !.bsHeight = <<250>>,
                                  !.sectorization = <<1>>, !.isd = <<2000>>,
                                  !.utNumber = <<v.numUes>>,
                                  !.bsNumber = <<v.numGnbs>>]
    /\ UNCHANGED <<argv, registered, v, ueIndex>>
    /\ UNCHANGED <<ue, defaults, nr, ch, band, gNbNetDev, ueNetDev, streams,
                   fabric, ueIpIface, clientApps, serverApps, attached, sim>>

\* lines 185-189: CreateScenarioWithMobility(Vector(ueSpeed, 0, 0), 0) creates
\* utNumber terminal nodes and bsNumber base-station nodes; every terminal
\* gets a constant-velocity mobility model with the grid's position (<<>>:
\* drawn by the helper) and the velocity (30, 0, 0)
CreateScenario ==
    /\ Goto("CreateScenario", "PositionLoop", "CreateScenario")
    /\ hexGrid' = [hexGrid EXCEPT !.created = TRUE,
                                  !.ueNodes = 0..(hexGrid.utNumber[1] - 1),
                                  !.gNbNodes = 0..(hexGrid.bsNumber[1] - 1)]
    /\ ue' = [i \in 0..(hexGrid.utNumber[1] - 1) |->
                 [position |-> <<>>, velocity |-> <<30, 0, 0>>,
                  setPositionCalls |-> 0, setVelocityCalls |-> 0]]
    /\ ueIndex' = 0
    /\ UNCHANGED <<argv, registered, v>>
    /\ UNCHANGED <<defaults, nr, ch, band, gNbNetDev, ueNetDev, streams,
                   fabric, ueIpIface, clientApps, serverApps, attached, sim>>

\* ueNodes.GetN()
GetN(nodes) == Cardinality(nodes)

\* lines 194-202: the position given to terminal i
Position(i) ==
    IF i > 0
    THEN <<500 * i, 300 * (IF i % 2 = 0 THEN 1 ELSE -1), 15>>
    ELSE <<100, 200, 15>>

\* Velocity without the alternation of the sign
VelocityNoZigzag(i) ==
    LET speed == 1 + i * 3
    IN  <<speed, speed, 0>>

\* lines 217-218: the velocity given to terminal i
Velocity(i) ==
    LET speed == 1 + i * 3
    IN  <<speed, (IF i % 2 = 0 THEN 1 ELSE -1) * speed, 0>>

\* SetPosition with the SetPosition call inside the `if (ueIndex > 0)` block:
\* terminal 0 keeps the position of the grid
SetPositionSkippingFirst ==
    /\ pc = "PositionLoop"
    /\ ueIndex < GetN(hexGrid.ueNodes)
    /\ ue' = IF ueIndex > 0
             THEN [ue EXCEPT ![ueIndex].position = Position(ueIndex),
                             ![ueIndex].setPositionCalls = @ + 1]
             ELSE ue
    /\ ueIndex' = ueIndex + 1
    /\ log' = Append(log, "SetPosition")
    /\ UNCHANGED <<argv, registered, v, pc>>
    /\ UNCHANGED <<hexGrid, defaults, nr, ch, band, gNbNetDev, ueNetDev,
                   streams, fabric, ueIpIface, clientApps, serverApps,
                   attached, sim>>

\* lines 192-210: one iteration of the first loop
SetPosition ==
    /\ pc = "PositionLoop"
    /\ ueIndex < GetN(hexGrid.ueNodes)
    /\ ue' = [ue EXCEPT ![ueIndex].position = Position(ueIndex),
                        ![ueIndex].setPositionCalls = @ + 1]
    /\ ueIndex' = ueIndex + 1
    /\ log' = Append(log, "SetPosition")
    /\ UNCHANGED <<argv, registered, v, pc>>
    /\ UNCHANGED <<hexGrid, defaults, nr, ch, band, gNbNetDev, ueNetDev,
                   streams, fabric, ueIpIface, clientApps, serverApps,
                   attached, sim>>

\* line 192: the first loop ends
PositionLoopEnd ==
    /\ pc = "PositionLoop"
    /\ ~(ueIndex < GetN(hexGrid.ueNodes))
    /\ pc' = "VelocityLoop"
    /\ ueIndex' = 0
    /\ UNCHANGED <<argv, registered, v, log>>
    /\ UNCHANGED worldVars

\* lines 212-219: one iteration of the second loop
SetVelocity ==
    /\ pc = "VelocityLoop"
    /\ ueIndex < GetN(hexGrid.ueNodes)
    /\ ue' = [ue EXCEPT ![ueIndex].velocity = Velocity(ueIndex),
                        ![ueIndex].setVelocityCalls = @ + 1]
    /\ ueIndex' = ueIndex + 1
    /\ log' = Append(log, "SetVelocity")
    /\ UNCHANGED <<argv, registered, v, pc>>
    /\ UNCHANGED <<hexGrid, defaults, nr, ch, band, gNbNetDev, ueNetDev,
                   streams, fabric, ueIpIface, clientApps, serverApps,
                   attached, sim>>

\* line 212: the second loop ends
VelocityLoopEnd ==
    /\ pc = "VelocityLoop"
    /\ ~(ueIndex < GetN(hexGrid.ueNodes))
    /\ pc' = "SetErrorModelDefault"
    /\ ueIndex' = 0
    /\ UNCHANGED <<argv, registered, v, log>>
    /\ UNCHANGED worldVars

(***************************************************************************)
(* Attribute defaults, helpers and band (lines 227-250).                   *)
(***************************************************************************)
\* the variables of the later stages, which the configuration leaves alone
laterVars ==
    <<gNbNetDev, ueNetDev, streams, fabric, ueIpIface, clientApps,
      serverApps, attached>>

\* NS_FATAL_ERROR: the message is printed and the process is terminated
Fatal(s) == [s EXCEPT !.aborted = TRUE]

\* lines 227-228: TypeId::LookupByName does not return for a name that is
\* not registered
SetErrorModelDefault ==
    /\ Goto("SetErrorModelDefault",
            IF v.errorModelType \in RegisteredErrorModels
            THEN "SetAmcDefault" ELSE "Fatal",
            "SetErrorModelDefault")
    /\ IF v.errorModelType \in RegisteredErrorModels
       THEN /\ defaults' = [defaults EXCEPT
                               !.ErrorModelType = <<v.errorModelType>>]
            /\ sim' = sim
       ELSE /\ defaults' = defaults
            /\ sim' = Fatal(sim)
    /\ UNCHANGED <<argv, registered, v, ueIndex, ue, hexGrid, nr, ch, band>>
    /\ UNCHANGED laterVars

\* lines 229-240
SetAmcDefault ==
    /\ Goto("SetAmcDefault",
            IF v.amcSelectionModel \in {"ErrorModel", "ShannonModel"}
            THEN "SetRlcDefault" ELSE "Fatal",
            "SetAmcDefault")
    /\ IF v.amcSelectionModel = "ErrorModel"
       THEN /\ defaults' = [defaults EXCEPT !.AmcModel = <<"ErrorModel">>]
            /\ sim' = sim
       ELSE IF v.amcSelectionModel = "ShannonModel"
       THEN /\ defaults' = [defaults EXCEPT !.AmcModel = <<"ShannonModel">>]
            /\ sim' = sim
       ELSE /\ defaults' = defaults
            /\ sim' = Fatal(sim)
    /\ UNCHANGED <<argv, registered, v, ueIndex, ue, hexGrid, nr, ch, band>>
    /\ UNCHANGED laterVars

\* line 241
SetRlcDefault ==
    /\ Goto("SetRlcDefault", "CreateHelpers", "SetRlcDefault")
    /\ defaults' = [defaults EXCEPT !.MaxTxBufferSize = <<999999999>>]
    /\ UNCHANGED <<argv, registered, v, ueIndex, ue, hexGrid, nr, ch, band,
                   sim>>
    /\ UNCHANGED laterVars

\* lines 243-246
CreateHelpers ==
    /\ Goto("CreateHelpers", "CreateBand", "CreateHelpers")
    /\ nr' = [nr EXCEPT !.created = TRUE, !.epcHelper = TRUE]
    /\ ch' = [ch EXCEPT !.created = TRUE]
    /\ UNCHANGED <<argv, registered, v, ueIndex, ue, hexGrid, defaults, band,
                   sim>>
    /\ UNCHANGED laterVars

\* lines 248-250
CreateBand ==
    /\ Goto("CreateBand", "ConfigureChannel", "CreateBand")
    /\ band' = <<[centralFrequency |-> v.centralFrequency,
                  bandwidth |-> v.bandwidth, numCc |-> 1]>>
    /\ UNCHANGED <<argv, registered, v, ueIndex, ue, hexGrid, defaults, nr,
                   ch, sim>>
    /\ UNCHANGED laterVars

(***************************************************************************)
(* ChannelModelConfigurator (lines 252-297).                               *)
(***************************************************************************)
\* line 252
IsPhasedArrayModel(model) ==
    model = "ThreeGpp" \/ model = "NYU" \/ model = "TwoRay"

\* HasUpdatePeriod without the test of the condition name
HasUpdatePeriodAlways(condition) == TRUE

\* line 264
HasUpdatePeriod(condition) ==
    condition = "Default" \/ condition = "Buildings"

\* PhasedArrayNr with the rows and columns of the base-station array
\* exchanged
PhasedArrayNrSwapped(h) ==
    [h EXCEPT !.beamformingHelper = <<"IdealBeamformingHelper">>,
              !.beamformingMethod = <<"DirectPathBeamforming">>,
              !.ueAntenna = [NumRows |-> <<1>>, NumColumns |-> <<1>>,
                             AntennaElement |-> <<"IsotropicAntennaModel">>],
              !.gnbAntenna = [NumRows |-> <<8>>, NumColumns |-> <<4>>,
                              AntennaElement |-> <<"IsotropicAntennaModel">>]]

\* lines 255-256, 270-283: the NrHelper after the phased-array branch
PhasedArrayNr(h) ==
    [h EXCEPT !.beamformingHelper = <<"IdealBeamformingHelper">>,
              !.beamformingMethod = <<"DirectPathBeamforming">>,
              !.ueAntenna = [NumRows |-> <<1>>, NumColumns |-> <<1>>,
                             AntennaElement |-> <<"IsotropicAntennaModel">>],
              !.gnbAntenna = [NumRows |-> <<4>>, NumColumns |-> <<8>>,
                              AntennaElement |-> <<"IsotropicAntennaModel">>]]

\* lines 258-268: the NrChannelHelper after the phased-array branch;
\* ConfigureFactories sets the propagation, spectrum and channel-condition
\* factories of the named scenario, condition and channel model
PhasedArrayChannel(c, scenario, condition, model) ==
    [c EXCEPT !.factories = <<[scenario |-> scenario,
                               channelConditionModel |-> condition,
                               channelModel |-> model]>>,
              !.ShadowingEnabled = <<TRUE>>,
              !.UpdatePeriod = IF HasUpdatePeriod(condition) THEN <<100>>
                               ELSE @]

\* lines 288-289: the NrHelper after the Friis branch
FriisNr(h) ==
    [h EXCEPT !.ueAntennaTypeId = <<"ns3::ParabolicAntennaModel">>,
              !.gnbAntennaTypeId = <<"ns3::ParabolicAntennaModel">>]

\* line 291: the NrChannelHelper after the Friis branch
FriisChannel(c) ==
    [c EXCEPT !.propagationFactory = <<"ns3::FriisPropagationLossModel">>]

\* ConfigureChannel with a final branch that falls back to the Friis
\* configuration instead of failing
ConfigureChannelFallback ==
    /\ Goto("ConfigureChannel", "AssignChannelsToBands", "ConfigureChannel")
    /\ IF IsPhasedArrayModel(v.channelModel)
       THEN /\ nr' = PhasedArrayNr(nr)
            /\ ch' = PhasedArrayChannel(ch, v.scenario,
                                        v.channelConditionModel,
                                        v.channelModel)
       ELSE /\ nr' = FriisNr(nr)
            /\ ch' = FriisChannel(ch)
    /\ UNCHANGED <<argv, registered, v, ueIndex, ue, hexGrid, defaults, band,
                   sim>>
    /\ UNCHANGED laterVars

\* lines 252-297
ConfigureChannel ==
    /\ Goto("ConfigureChannel",
            IF IsPhasedArrayModel(v.channelModel) \/ v.channelModel = "Friis"
            THEN "AssignChannelsToBands" ELSE "Fatal",
            "ConfigureChannel")
    /\ IF IsPhasedArrayModel(v.channelModel)
       THEN /\ nr' = PhasedArrayNr(nr)
            /\ ch' = PhasedArrayChannel(ch, v.scenario,
                                        v.channelConditionModel,
                                        v.channelModel)
            /\ sim' = sim
       ELSE IF v.channelModel = "Friis"
       THEN /\ nr' = FriisNr(nr)
            /\ ch' = FriisChannel(ch)
            /\ sim' = sim
       ELSE /\ nr' = nr
            /\ ch' = ch
            /\ sim' = Fatal(sim)
    /\ UNCHANGED <<argv, registered, v, ueIndex, ue, hexGrid, defaults, band>>
    /\ UNCHANGED laterVars

(***************************************************************************)
(* DeviceProvisioner (lines 299-335).                                      *)
(***************************************************************************)
\* lines 300-304
AssignChannelsToBands ==
    /\ Goto("AssignChannelsToBands", "SetPhyAttributes",
            "AssignChannelsToBands")
    /\ ch' = [ch EXCEPT !.assignedBands = Len(band)]
    /\ UNCHANGED <<argv, registered, v, ueIndex, ue, hexGrid, defaults, nr,
                   band, sim>>
    /\ UNCHANGED laterVars

\* lines 306-308 (bsTxPower 41 dBm, line 174; ueTxPower 23 dBm, line 173)
SetPhyAttributes ==
    /\ Goto("SetPhyAttributes", "SetSchedulerAttributes", "SetPhyAttributes")
    /\ nr' = [nr EXCEPT !.gnbPhy = [TxPower |-> <<41>>,
                                    Numerology |-> <<v.numerology>>],
                        !.uePhy = [TxPower |-> <<23>>]]
    /\ UNCHANGED <<argv, registered, v, ueIndex, ue, hexGrid, defaults, ch,
                   band, sim>>
    /\ UNCHANGED laterVars

\* lines 311-312
SetSchedulerAttributes ==
    /\ Goto("SetSchedulerAttributes", "SetErrorModels",
            "SetSchedulerAttributes")
    /\ nr' = [nr EXCEPT !.scheduler = [FixedMcsDl |-> <<FALSE>>,
                                       FixedMcsUl |-> <<FALSE>>]]
    /\ UNCHANGED <<argv, registered, v, ueIndex, ue, hexGrid, defaults, ch,
                   band, sim>>
    /\ UNCHANGED laterVars

\* lines 315-316
SetErrorModels ==
    /\ Goto("SetErrorModels", "SetGnbAmc", "SetErrorModels")
    /\ nr' = [nr EXCEPT !.ulErrorModel = <<v.errorModelType>>,
                        !.dlErrorModel = <<v.errorModelType>>]
    /\ UNCHANGED <<argv, registered, v, ueIndex, ue, hexGrid, defaults, ch,
                   band, sim>>
    /\ UNCHANGED laterVars

\* lines 319-329
SetGnbAmc ==
    /\ Goto("SetGnbAmc", "InstallGnbDevice", "SetGnbAmc")
    /\ nr' = IF v.amcSelectionModel = "ErrorModel"
             THEN [nr EXCEPT !.gnbDlAmc = <<"ErrorModel">>,
                             !.gnbUlAmc = <<"ErrorModel">>]
             ELSE IF v.amcSelectionModel = "ShannonModel"
             THEN [nr EXCEPT !.gnbDlAmc = <<"ShannonModel">>,
                             !.gnbUlAmc = <<"ShannonModel">>]
             ELSE nr
    /\ UNCHANGED <<argv, registered, v, ueIndex, ue, hexGrid, defaults, ch,
                   band, sim>>
    /\ UNCHANGED laterVars

\* one device per node of the container, in the container's order
InstallDevice(nodes) == [i \in nodes |-> [node |-> i]]

\* line 331
InstallGnbDevice ==
    /\ Goto("InstallGnbDevice", "InstallUeDevice", "InstallGnbDevice")
    /\ gNbNetDev' = InstallDevice(hexGrid.gNbNodes)
    /\ UNCHANGED <<argv, registered, v, ueIndex, ue, hexGrid, defaults, nr,
                   ch, band, sim>>
    /\ UNCHANGED <<ueNetDev, streams, fabric, ueIpIface, clientApps,
                   serverApps, attached>>

\* InstallUeDevice that also attaches the terminals as soon as their devices
\* exist
InstallUeDeviceAttaching ==
    /\ Goto("InstallUeDevice", "AssignStreamsGnb", "InstallUeDevice")
    /\ ueNetDev' = InstallDevice(hexGrid.ueNodes)
    /\ attached' = [k \in hexGrid.ueNodes |-> 1]
    /\ UNCHANGED <<argv, registered, v, ueIndex, ue, hexGrid, defaults, nr,
                   ch, band, sim>>
    /\ UNCHANGED <<gNbNetDev, streams, fabric, ueIpIface, clientApps,
                   serverApps>>

\* line 332
InstallUeDevice ==
    /\ Goto("InstallUeDevice", "AssignStreamsGnb", "InstallUeDevice")
    /\ ueNetDev' = InstallDevice(hexGrid.ueNodes)
    /\ UNCHANGED <<argv, registered, v, ueIndex, ue, hexGrid, defaults, nr,
                   ch, band, sim>>
    /\ UNCHANGED <<gNbNetDev, streams, fabric, ueIpIface, clientApps,
                   serverApps, attached>>

\* NrHelper::AssignStreams(devices, first): the stream indices given to each
\* device, perDev consecutive indices per device starting at `first`
AssignStreams(devices, first, perDev) ==
    [k \in DOMAIN devices |->
        (first + k * perDev)..(first + (k + 1) * perDev - 1)]

\* the value NrHelper::AssignStreams returns: the number of streams assigned
StreamsUsed(devices, perDev) == Cardinality(DOMAIN devices) * perDev

\* AssignStreamsGnb with the returned count dropped: randomStream is not
\* advanced
AssignStreamsGnbNoAdvance ==
    /\ Goto("AssignStreamsGnb", "AssignStreamsUe", "AssignStreamsGnb")
    /\ streams' = [streams EXCEPT
                      !.gnbFirst = <<v.randomStream>>,
                      !.gnb = AssignStreams(gNbNetDev, v.randomStream,
                                            GnbStreamsPerDev)]
    /\ UNCHANGED <<argv, registered, v, ueIndex, ue, hexGrid, defaults, nr,
                   ch, band, sim>>
    /\ UNCHANGED <<gNbNetDev, ueNetDev, fabric, ueIpIface, clientApps,
                   serverApps, attached>>

\* line 334
AssignStreamsGnb ==
    /\ Goto("AssignStreamsGnb", "AssignStreamsUe", "AssignStreamsGnb")
    /\ streams' = [streams EXCEPT
                      !.gnbFirst = <<v.randomStream>>,
                      !.gnb = AssignStreams(gNbNetDev, v.randomStream,
                                            GnbStreamsPerDev)]
    /\ v' = [v EXCEPT !.randomStream =
                          @ + StreamsUsed(gNbNetDev, GnbStreamsPerDev)]
    /\ UNCHANGED <<argv, registered, ueIndex, ue, hexGrid, defaults, nr, ch,
                   band, sim>>
    /\ UNCHANGED <<gNbNetDev, ueNetDev, fabric, ueIpIface, clientApps,
                   serverApps, attached>>

\* line 335
AssignStreamsUe ==
    /\ Goto("AssignStreamsUe", "CreateRemoteHost", "AssignStreamsUe")
    /\ streams' = [streams EXCEPT
                      !.ueFirst = <<v.randomStream>>,
                      !.ue = AssignStreams(ueNetDev, v.randomStream,
                                           UeStreamsPerDev)]
    /\ v' = [v EXCEPT !.randomStream =
                          @ + StreamsUsed(ueNetDev, UeStreamsPerDev)]
    /\ UNCHANGED <<argv, registered, ueIndex, ue, hexGrid, defaults, nr, ch,
                   band, sim>>
    /\ UNCHANGED <<gNbNetDev, ueNetDev, fabric, ueIpIface, clientApps,
                   serverApps, attached>>

(***************************************************************************)
(* NetworkFabricBuilder (lines 337-363).                                   *)
(***************************************************************************)
\* lines 339-343
CreateRemoteHost ==
    /\ Goto("CreateRemoteHost", "InstallP2p", "CreateRemoteHost")
    /\ fabric' = [fabric EXCEPT !.remoteHost = TRUE,
                                !.internetOnRemoteHost = TRUE]
    /\ UNCHANGED <<argv, registered, v, ueIndex, ue, hexGrid, defaults, nr,
                   ch, band, sim>>
    /\ UNCHANGED <<gNbNetDev, ueNetDev, streams, ueIpIface, clientApps,
                   serverApps, attached>>

\* lines 345-349
InstallP2p ==
    /\ Goto("InstallP2p", "AssignInternetAddress", "InstallP2p")
    /\ fabric' = [fabric EXCEPT
                     !.p2p = <<[a |-> "pgw", b |-> "remoteHost",
                                DataRate |-> "100Gb/s", Mtu |-> 2500,
                                Delay |-> 10]>>]
    /\ UNCHANGED <<argv, registered, v, ueIndex, ue, hexGrid, defaults, nr,
                   ch, band, sim>>
    /\ UNCHANGED <<gNbNetDev, ueNetDev, streams, ueIpIface, clientApps,
                   serverApps, attached>>

\* lines 351-353
AssignInternetAddress ==
    /\ Goto("AssignInternetAddress", "AddStaticRoute",
            "AssignInternetAddress")
    /\ fabric' = [fabric EXCEPT
                     !.internetIpIfaces = <<[network |-> "1.0.0.0",
                                             mask |-> "255.0.0.0"]>>]
    /\ UNCHANGED <<argv, registered, v, ueIndex, ue, hexGrid, defaults, nr,
                   ch, band, sim>>
    /\ UNCHANGED <<gNbNetDev, ueNetDev, streams, ueIpIface, clientApps,
                   serverApps, attached>>

\* lines 354-358
AddStaticRoute ==
    /\ Goto("AddStaticRoute", "InstallUeInternet", "AddStaticRoute")
    /\ fabric' = [fabric EXCEPT
                     !.routes = @ \cup {[network |-> "7.0.0.0",
                                         mask |-> "255.0.0.0",
                                         interface |-> 1]}]
    /\ UNCHANGED <<argv, registered, v, ueIndex, ue, hexGrid, defaults, nr,
                   ch, band, sim>>
    /\ UNCHANGED <<gNbNetDev, ueNetDev, streams, ueIpIface, clientApps,
                   serverApps, attached>>

\* line 359
InstallUeInternet ==
    /\ Goto("InstallUeInternet", "AssignUeIpv4Address", "InstallUeInternet")
    /\ fabric' = [fabric EXCEPT !.internetOnUes = TRUE]
    /\ UNCHANGED <<argv, registered, v, ueIndex, ue, hexGrid, defaults, nr,
                   ch, band, sim>>
    /\ UNCHANGED <<gNbNetDev, ueNetDev, streams, ueIpIface, clientApps,
                   serverApps, attached>>

\* the address the EPC helper gives to the k-th terminal device: the
\* terminal block is 7.0.0.0/8 and 7.0.0.1 is the gateway
UeAddress(k) == <<7, 0, 0, k + 2>>

\* AssignUeIpv4Address followed at once by the attachment, the loop that
\* creates the flows left out
AssignUeIpv4AddressThenAttach ==
    /\ Goto("AssignUeIpv4Address", "AttachToClosestGnb",
            "AssignUeIpv4Address")
    /\ ueIpIface' = [k \in DOMAIN ueNetDev |-> UeAddress(k)]
    /\ ueIndex' = 0
    /\ UNCHANGED <<argv, registered, v, ue, hexGrid, defaults, nr, ch, band,
                   sim>>
    /\ UNCHANGED <<gNbNetDev, ueNetDev, streams, fabric, clientApps,
                   serverApps, attached>>

\* lines 361-363
AssignUeIpv4Address ==
    /\ Goto("AssignUeIpv4Address", "FlowLoop", "AssignUeIpv4Address")
    /\ ueIpIface' = [k \in DOMAIN ueNetDev |-> UeAddress(k)]
    /\ ueIndex' = 0
    /\ UNCHANGED <<argv, registered, v, ue, hexGrid, defaults, nr, ch, band,
                   sim>>
    /\ UNCHANGED <<gNbNetDev, ueNetDev, streams, fabric, clientApps,
                   serverApps, attached>>

(***************************************************************************)
(* TrafficOrchestrator and attachment (lines 364-383).                     *)
(***************************************************************************)
\* lines 370-374: the application trafficHelper.Install(remoteHost) creates
\* for terminal i (dlPort 1234, line 365)
ClientApp(i) ==
    [node |-> "remoteHost",
     socketFactory |-> "ns3::UdpSocketFactory",
     remoteAddress |-> ueIpIface[i],
     remotePort |-> 1234,
     generator |-> "TrafficGeneratorNgmnGaming",
     start |-> <<>>,
     stop |-> <<>>]

\* lines 368-375: one iteration of the third loop
CreateFlow ==
    /\ pc = "FlowLoop"
    /\ ueIndex < GetN(hexGrid.ueNodes)
    /\ clientApps' = Append(clientApps, ClientApp(ueIndex))
    /\ ueIndex' = ueIndex + 1
    /\ log' = Append(log, "CreateFlow")
    /\ UNCHANGED <<argv, registered, v, pc, ue, hexGrid, defaults, nr, ch,
                   band, sim>>
    /\ UNCHANGED <<gNbNetDev, ueNetDev, streams, fabric, ueIpIface,
                   serverApps, attached>>

\* line 368: the third loop ends
FlowLoopEnd ==
    /\ pc = "FlowLoop"
    /\ ~(ueIndex < GetN(hexGrid.ueNodes))
    /\ pc' = "AttachToClosestGnb"
    /\ ueIndex' = 0
    /\ UNCHANGED <<argv, registered, v, log>>
    /\ UNCHANGED worldVars

\* how many times terminal device k has been attached
Attachments(k) == IF k \in DOMAIN attached THEN attached[k] ELSE 0

\* line 377: every device of ueNetDev is attached to the base station the
\* helper finds closest (which one is the helper's choice and is not modelled)
AttachToClosestGnb ==
    /\ Goto("AttachToClosestGnb", "StartStopApps", "AttachToClosestGnb")
    /\ attached' = [k \in DOMAIN ueNetDev |-> Attachments(k) + 1]
    /\ UNCHANGED <<argv, registered, v, ueIndex, ue, hexGrid, defaults, nr,
                   ch, band, sim>>
    /\ UNCHANGED <<gNbNetDev, ueNetDev, streams, fabric, ueIpIface,
                   clientApps, serverApps>>

\* ApplicationContainer::Start / Stop: every application of the container
Schedule(apps, start, stop) ==
    [k \in DOMAIN apps |-> [apps[k] EXCEPT !.start = <<start>>,
                                           !.stop = <<stop>>]]

\* lines 379-382
StartStopApps ==
    /\ Goto("StartStopApps", "EnableTraces", "StartStopApps")
    /\ serverApps' = Schedule(serverApps, v.udpTime, v.simTime)
    /\ clientApps' = Schedule(clientApps, v.udpTime, v.simTime)
    /\ UNCHANGED <<argv, registered, v, ueIndex, ue, hexGrid, defaults, nr,
                   ch, band, sim>>
    /\ UNCHANGED <<gNbNetDev, ueNetDev, streams, fabric, ueIpIface,
                   attached>>

(***************************************************************************)
(* ExperimentRunner (lines 384-407).                                       *)
(***************************************************************************)
\* lines 385-388
EnableTraces ==
    /\ Goto("EnableTraces", "SimulatorStop", "EnableTraces")
    /\ nr' = [nr EXCEPT !.traces = @ \cup {"DlDataPhy", "DlMacSched",
                                           "GnbMacCtrlMsgs", "Pathloss"}]
    /\ UNCHANGED <<argv, registered, v, ueIndex, ue, hexGrid, defaults, ch,
                   band, sim>>
    /\ UNCHANGED laterVars

\* SimulatorStop followed at once by Simulator::Run, the two RngSeedManager
\* calls left out
SimulatorStopUnseeded ==
    /\ Goto("SimulatorStop", "SimulatorRun", "SimulatorStop")
    /\ sim' = [sim EXCEPT !.stopAt = <<v.simTime>>]
    /\ UNCHANGED <<argv, registered, v, ueIndex, ue, hexGrid, defaults, nr,
                   ch, band>>
    /\ UNCHANGED laterVars

\* line 390
SimulatorStop ==
    /\ Goto("SimulatorStop", "SetSeed", "SimulatorStop")
    /\ sim' = [sim EXCEPT !.stopAt = <<v.simTime>>]
    /\ UNCHANGED <<argv, registered, v, ueIndex, ue, hexGrid, defaults, nr,
                   ch, band>>
    /\ UNCHANGED laterVars

\* line 391
SetSeed ==
    /\ Goto("SetSeed", "SetRun", "SetSeed")
    /\ sim' = [sim EXCEPT !.seed = v.rngSeed]
    /\ UNCHANGED <<argv, registered, v, ueIndex, ue, hexGrid, defaults, nr,
                   ch, band>>
    /\ UNCHANGED laterVars

\* line 392
SetRun ==
    /\ Goto("SetRun", "SimulatorRun", "SetRun")
    /\ sim' = [sim EXCEPT !.run = v.rngRun]
    /\ UNCHANGED <<argv, registered, v, ueIndex, ue, hexGrid, defaults, nr,
                   ch, band>>
    /\ UNCHANGED laterVars

\* lines 395-396: simStart is taken and Simulator::Run is entered
SimulatorRun ==
    /\ Goto("SimulatorRun", "Running", "SimulatorRun")
    /\ sim' = [sim EXCEPT !.state = "running"]
    /\ UNCHANGED <<argv, registered, v, ueIndex, ue, hexGrid, defaults, nr,
                   ch, band>>
    /\ UNCHANGED laterVars

\* line 396: the event loop reaches the stop event scheduled by
\* Simulator::Stop and Simulator::Run returns
RunReturns ==
    /\ sim.stopAt # <<>>
    /\ Goto("Running", "ReportRuntime", "RunReturns")
    /\ sim' = [sim EXCEPT !.state = "stopped", !.now = sim.stopAt[1]]
    /\ UNCHANGED <<argv, registered, v, ueIndex, ue, hexGrid, defaults, nr,
                   ch, band>>
    /\ UNCHANGED laterVars

\* lines 397-402
ReportRuntime ==
    /\ Goto("ReportRuntime", "Destroy", "ReportRuntime")
    /\ sim' = [sim EXCEPT !.runtimeReported = TRUE]
    /\ UNCHANGED <<argv, registered, v, ueIndex, ue, hexGrid, defaults, nr,
                   ch, band>>
    /\ UNCHANGED laterVars

\* line 404
Destroy ==
    /\ Goto("Destroy", "Return", "Destroy")
    /\ sim' = [sim EXCEPT !.state = "destroyed"]
    /\ UNCHANGED <<argv, registered, v, ueIndex, ue, hexGrid, defaults, nr,
                   ch, band>>
    /\ UNCHANGED laterVars

\* lines 405-407
Return ==
    /\ Goto("Return", "Done", "Return")
    /\ sim' = [sim EXCEPT !.exit = <<0>>]
    /\ UNCHANGED <<argv, registered, v, ueIndex, ue, hexGrid, defaults, nr,
                   ch, band>>
    /\ UNCHANGED laterVars

Next ==
    \/ AddValues
    \/ Parse
    \/ AddLateValues
    \/ LogEnable
    \/ ConfigureHexGrid
    \/ CreateScenario
    \/ SetPosition
    \/ PositionLoopEnd
    \/ SetVelocity
    \/ VelocityLoopEnd
    \/ SetErrorModelDefault
    \/ SetAmcDefault
    \/ SetRlcDefault
    \/ CreateHelpers
    \/ CreateBand
    \/ ConfigureChannel
    \/ AssignChannelsToBands
    \/ SetPhyAttributes
    \/ SetSchedulerAttributes
    \/ SetErrorModels
    \/ SetGnbAmc
    \/ InstallGnbDevice
    \/ InstallUeDevice
    \/ AssignStreamsGnb
    \/ AssignStreamsUe
    \/ CreateRemoteHost
    \/ InstallP2p
    \/ AssignInternetAddress
    \/ AddStaticRoute
    \/ InstallUeInternet
    \/ AssignUeIpv4Address
    \/ CreateFlow
    \/ FlowLoopEnd
    \/ AttachToClosestGnb
    \/ StartStopApps
    \/ EnableTraces
    \/ SimulatorStop
    \/ SetSeed
    \/ SetRun
    \/ SimulatorRun
    \/ RunReturns
    \/ ReportRuntime
    \/ Destroy
    \/ Return

Spec == Init /\ [][Next]_vars

\* main() runs on one thread and every statement of it returns: a step that
\* can be taken is taken
FairSpec == Spec /\ WF_vars(Next)

(***************************************************************************)
(* Properties.                                                             *)
(***************************************************************************)
\* how many times main() has executed the operation op
Count(op) == Cardinality({i \in 1..Len(log) : log[i] = op})

\* main() has executed the operation op
Executed(op) == Count(op) > 0

\* the channel configuration of lines 252-297 has run and has not failed
ChannelConfigured == Executed("ConfigureChannel") /\ ~sim.aborted

PhasedArrayModels == {"ThreeGpp", "NYU", "TwoRay"}

C3_Placement ==
    Executed("SetErrorModelDefault") =>
        /\ DOMAIN ue = 0..(v.numUes - 1)
        /\ \A i \in DOMAIN ue :
              /\ ue[i].setPositionCalls = 1
              /\ ue[i].setVelocityCalls = 1
              /\ ue[i].position[3] = hexGrid.utHeight[1]
              /\ i = 0 => /\ ue[i].position[1] = 100
                          /\ ue[i].position[2] = 200
              /\ i > 0 => /\ ue[i].position[1] = 500 * i
                          /\ (i % 2 = 0) => ue[i].position[2] = 300
                          /\ (i % 2 = 1) => ue[i].position[2] = -300
              /\ ue[i].velocity[1] = 1 + 3 * i
              /\ (i % 2 = 0) => ue[i].velocity[2] = 1 + 3 * i
              /\ (i % 2 = 1) => ue[i].velocity[2] = -(1 + 3 * i)
              /\ ue[i].velocity[3] = 0

\* the default four terminals, placed and moving, at the end of main()
C3_Witness ==
    /\ pc = "Done"
    /\ v.numUes = 4
    /\ ue[3].position = <<1500, -300, 15>>
    /\ ue[2].velocity = <<7, 7, 0>>

\* C4: the update period of the channel condition is 100 ms exactly when the
\* channel configuration has run for a phased-array model with the condition
\* Default or Buildings; otherwise (LOS, NLOS, Friis, not yet configured) it
\* is never written.
C4_UpdatePeriod ==
    /\ ch.UpdatePeriod \in {<<>>, <<100>>}
    /\ ch.UpdatePeriod = <<100>> <=>
          /\ ChannelConfigured
          /\ v.channelModel \in PhasedArrayModels
          /\ v.channelConditionModel \in {"Default", "Buildings"}

\* a finished run with ThreeGpp and LOS: the update period was never written
C4_Witness ==
    /\ pc = "Done"
    /\ v.channelModel = "ThreeGpp"
    /\ v.channelConditionModel = "LOS"
    /\ ch.UpdatePeriod = <<>>
    /\ ch.ShadowingEnabled = <<TRUE>>

ValidChannelModels == PhasedArrayModels \cup {"Friis"}

ValidAmcModels == {"ErrorModel", "ShannonModel"}

\* the command line names a channel model, an AMC selection model or an
\* error-model type that is not a supported one
InvalidArgument ==
    \/ argv.channelModel # <<>> /\ argv.channelModel[1] \notin ValidChannelModels
    \/ argv.amcSelectionModel # <<>>
          /\ argv.amcSelectionModel[1] \notin ValidAmcModels
    \/ argv.errorModelType # <<>>
          /\ argv.errorModelType[1] \notin RegisteredErrorModels

\* C2 (states): each of the three checks is fatal for a value outside its
\* set; the process is then stopped where it failed, with no device
\* installed, the simulator never run and nothing configured in place of the
\* rejected value; and a command line that names an unsupported value never
\* gets further than that.
C2_AbortState ==
    /\ (Executed("SetErrorModelDefault")
          /\ v.errorModelType \notin RegisteredErrorModels) => sim.aborted
    /\ (Executed("SetAmcDefault")
          /\ v.amcSelectionModel \notin ValidAmcModels) => sim.aborted
    /\ (Executed("ConfigureChannel")
          /\ v.channelModel \notin ValidChannelModels) => sim.aborted
    /\ sim.aborted =>
          /\ pc = "Fatal"
          /\ gNbNetDev = <<>> /\ ueNetDev = <<>>
          /\ sim.state = "idle" /\ ~Executed("SimulatorRun")
          /\ v.errorModelType \notin RegisteredErrorModels =>
                defaults.ErrorModelType = <<>>
          /\ v.amcSelectionModel \notin ValidAmcModels =>
                defaults.AmcModel = <<>>
          /\ v.channelModel \notin ValidChannelModels =>
                /\ ch.factories = <<>> /\ ch.propagationFactory = <<>>
                /\ nr.ueAntennaTypeId = <<>> /\ nr.gnbAntennaTypeId = <<>>
                /\ nr.ueAntenna.AntennaElement = <<>>
                /\ nr.gnbAntenna.AntennaElement = <<>>
                /\ nr.beamformingHelper = <<>>
    /\ (InvalidArgument /\ Executed("Parse")) =>
          /\ gNbNetDev = <<>> /\ ueNetDev = <<>>
          /\ sim.state = "idle"
          /\ Executed("ConfigureChannel") => sim.aborted

C5_FlagsRegisteredBeforeParse ==
    /\ pc = "Parse" => Flags \subseteq registered
    /\ Executed("Parse") =>
          \A f \in Flags : argv[f] # <<>> => v[VarOf(f)] = argv[f][1]
    /\ (Executed("SetErrorModels") /\ argv.errorModelType # <<>>) =>
          /\ nr.ulErrorModel = argv.errorModelType
          /\ nr.dlErrorModel = argv.errorModelType
    /\ (Executed("SetAmcDefault") /\ argv.amcSelectionModel # <<>>) =>
          IF argv.amcSelectionModel[1] \in ValidAmcModels
          THEN defaults.AmcModel = argv.amcSelectionModel
          ELSE sim.aborted

\* the state of the experiment's lifecycle
Lifecycle ==
    IF sim.state = "destroyed" THEN 5
    ELSE IF sim.state = "stopped" THEN 4
    ELSE IF sim.state = "running" THEN 3
    ELSE IF Executed("SetSeed") /\ Executed("SetRun") THEN 2
    ELSE IF Executed("SimulatorStop") THEN 1
    ELSE 0

\* topology, channel, devices, fabric, traffic, traces and stop time are set
SetupComplete ==
    /\ DOMAIN ue = hexGrid.ueNodes
    /\ \A i \in DOMAIN ue : ue[i].position # <<>> /\ ue[i].setVelocityCalls > 0
    /\ ChannelConfigured /\ ch.assignedBands = 1
    /\ DOMAIN gNbNetDev = hexGrid.gNbNodes /\ DOMAIN ueNetDev = hexGrid.ueNodes
    /\ streams.gnbFirst # <<>> /\ streams.ueFirst # <<>>
    /\ DOMAIN attached = hexGrid.ueNodes
    /\ fabric.remoteHost /\ fabric.p2p # <<>> /\ fabric.routes # {}
    /\ fabric.internetIpIfaces # <<>> /\ DOMAIN ueIpIface = hexGrid.ueNodes
    /\ Len(clientApps) = v.numUes
    /\ \A k \in DOMAIN clientApps :
          clientApps[k].start # <<>> /\ clientApps[k].stop # <<>>
    /\ nr.traces = {"DlDataPhy", "DlMacSched", "GnbMacCtrlMsgs", "Pathloss"}
    /\ sim.stopAt = <<v.simTime>>

\* C6 (states): seed and run number are applied at most once, and exactly
\* once with the command line's values before the simulator runs; all setup
\* is complete when it runs; the runtime is reported only after it has
\* returned; the process returns 0 only with the simulator destroyed.
C6_LifecycleState ==
    /\ Count("SetSeed") <= 1 /\ Count("SetRun") <= 1
    /\ sim.state # "idle" =>
          /\ Count("SetSeed") = 1 /\ Count("SetRun") = 1
          /\ sim.seed = v.rngSeed /\ sim.run = v.rngRun
          /\ SetupComplete
    /\ sim.runtimeReported => sim.state \in {"stopped", "destroyed"}
    /\ sim.exit = <<0>> => sim.state = "destroyed"

\* the process has ended on an error: NS_FATAL_ERROR or a rejected command line
EndedOnError == sim.aborted \/ sim.exit = <<1>>

\* C6: the lifecycle is Configured, Seeded, Running, Completed, Destroyed,
\* one state after the other with none skipped or repeated; seed and run
\* number are applied exactly once before Simulator::Run; all setup is
\* complete before it; the runtime is reported after it; and every run that
\* meets no error ends destroyed, returning 0.
C6_Lifecycle ==
    /\ []C6_LifecycleState
    /\ [][Lifecycle' = Lifecycle \/ Lifecycle' = Lifecycle + 1]_vars
    /\ <>(EndedOnError \/ (sim.state = "destroyed" /\ sim.exit = <<0>>))

\* a seeded run that has completed, been destroyed and returned 0
C6_Witness ==
    /\ pc = "Done"
    /\ sim.state = "destroyed"
    /\ sim.exit = <<0>>
    /\ sim.seed = 2
    /\ sim.runtimeReported

\* the stream indices given to the base-station devices
GnbStreams == UNION {streams.gnb[k] : k \in DOMAIN streams.gnb}

\* the stream indices given to the terminal devices
UeStreams == UNION {streams.ue[k] : k \in DOMAIN streams.ue}

\* C7: the base-station devices get their streams first, starting at 1; the
\* terminal devices get theirs second, starting at 1 plus the number of
\* streams the base stations consumed, so every base-station index is below
\* every terminal index and no index is shared; and the assignment is the
\* one function of (gNbNum, ueNum): device k of either set has a fixed block
\* of indices.
C7_StreamAssignment ==
    /\ streams.gnbFirst # <<>> =>
          /\ streams.gnbFirst = <<1>>
          /\ DOMAIN streams.gnb = 0..(v.numGnbs - 1)
          /\ \A k \in DOMAIN streams.gnb :
                streams.gnb[k] =
                    (1 + k * GnbStreamsPerDev)..((k + 1) * GnbStreamsPerDev)
    /\ streams.gnbFirst = <<>> => streams.ueFirst = <<>> /\ streams.ue = <<>>
    /\ streams.ueFirst # <<>> =>
          /\ streams.ueFirst = <<1 + Cardinality(GnbStreams)>>
          /\ GnbStreams \cap UeStreams = {}
          /\ \A a \in GnbStreams, b \in UeStreams : a < b
          /\ DOMAIN streams.ue = 0..(v.numUes - 1)
          /\ \A k \in DOMAIN streams.ue :
                streams.ue[k] =
                    (1 + v.numGnbs * GnbStreamsPerDev + k * UeStreamsPerDev)
                    ..(v.numGnbs * GnbStreamsPerDev + (k + 1) * UeStreamsPerDev)
          /\ v.randomStream = 1 + Cardinality(GnbStreams) + Cardinality(UeStreams)

\* two base stations and four terminals with their streams assigned
C7_Witness ==
    /\ streams.ueFirst # <<>>
    /\ v.numGnbs = 2
    /\ v.numUes = 4
    /\ Cardinality(UeStreams) = 4 * UeStreamsPerDev

\* the client half of a flow: one client application per terminal, on the
\* remote host, addressed to the terminal's address and port 1234, started
\* at udpTime and stopped at simTime
ClientFlows ==
    /\ Len(clientApps) = v.numUes
    /\ \A i \in hexGrid.ueNodes :
          /\ Cardinality({k \in DOMAIN clientApps :
                             clientApps[k].remoteAddress = ueIpIface[i]}) = 1
          /\ clientApps[i + 1].remoteAddress = ueIpIface[i]
    /\ \A k \in DOMAIN clientApps :
          /\ clientApps[k].node = "remoteHost"
          /\ clientApps[k].remotePort = 1234
          /\ clientApps[k].start = <<v.udpTime>>
          /\ clientApps[k].stop = <<v.simTime>>

\* the server half of a flow: one server application on every terminal,
\* started at udpTime and stopped at simTime
ServerAtTerminals ==
    /\ \A i \in hexGrid.ueNodes :
          Cardinality({k \in DOMAIN serverApps : serverApps[k].node = i}) = 1
    /\ \A k \in DOMAIN serverApps :
          /\ serverApps[k].start = <<v.udpTime>>
          /\ serverApps[k].stop = <<v.simTime>>

\* the client half holds once the applications are scheduled
ClientFlowsScheduled == Executed("StartStopApps") => ClientFlows

\* C8: after traffic setup there is exactly one downlink flow per terminal,
\* its server at the terminal and its client at the remote host, addressed
\* to the terminal's address and the shared port, and all flows start at the
\* traffic start offset and stop at the simulation stop time.
C8_OneFlowPerTerminal ==
    Executed("StartStopApps") => (ClientFlows /\ ServerAtTerminals)

\* the stage the claim gives an operation; 0 for the command line and for
\* the operations it gives to no stage
Stage(op) ==
    CASE op \in {"ConfigureHexGrid", "CreateScenario", "SetPosition",
                 "SetVelocity"} -> 1
      [] op \in {"ConfigureChannel"} -> 2
      [] op \in {"SetErrorModelDefault", "SetAmcDefault", "CreateBand",
                 "AssignChannelsToBands", "SetPhyAttributes",
                 "SetSchedulerAttributes", "SetErrorModels", "SetGnbAmc",
                 "InstallGnbDevice", "InstallUeDevice", "AssignStreamsGnb",
                 "AssignStreamsUe", "AttachToClosestGnb"} -> 3
      [] op \in {"CreateRemoteHost", "InstallP2p", "AssignInternetAddress",
                 "AddStaticRoute", "InstallUeInternet",
                 "AssignUeIpv4Address"} -> 4
      [] op \in {"CreateFlow", "StartStopApps"} -> 5
      [] op \in {"EnableTraces", "SimulatorStop", "SetSeed", "SetRun",
                 "SimulatorRun", "RunReturns", "ReportRuntime", "Destroy",
                 "Return"} -> 6
      [] OTHER -> 0

\* the operations in `ops` ran in the order of their stages
InStageOrder(ops) ==
    \A i, j \in 1..Len(log) :
        (i < j /\ log[i] \in ops /\ log[j] \in ops) =>
            Stage(log[i]) <= Stage(log[j])

StagedOps == {op \in {log[i] : i \in 1..Len(log)} : Stage(op) # 0}

\* C9 as claimed: the six stages run strictly in order; once an operation of
\* a later stage has run, no operation of an earlier stage runs.
C9_StrictStageOrder == InStageOrder(StagedOps)

\* the DeviceProvisioner operations that run ahead of the channel
\* configuration
EarlyProvisioning == {"SetErrorModelDefault", "SetAmcDefault", "CreateBand"}

\* C9 as amended: the stages run in order except for DeviceProvisioner's
\* attribute defaults and band creation, which run after the topology and
\* before the channel configuration, and its attachment, which runs after
\* the fabric and after every flow is created, before the flows are
\* scheduled; no operation outside a loop runs twice.
C9_StageOrder ==
    /\ InStageOrder(StagedOps \ (EarlyProvisioning \cup {"AttachToClosestGnb"}))
    /\ \A i, j \in 1..Len(log) :
          log[i] \in EarlyProvisioning =>
              /\ Stage(log[j]) = 1 => j < i
              /\ (Stage(log[j]) >= 2 /\ log[j] \notin EarlyProvisioning) => i < j
    /\ \A i, j \in 1..Len(log) :
          log[i] = "AttachToClosestGnb" =>
              /\ (Stage(log[j]) \in 1..4 \/ log[j] = "CreateFlow") => j <= i
              /\ (log[j] = "StartStopApps" \/ Stage(log[j]) = 6) => i < j
    /\ Executed("AttachToClosestGnb") => Count("CreateFlow") = v.numUes
    /\ \A op \in StagedOps \ {"SetPosition", "SetVelocity", "CreateFlow"} :
          Count(op) = 1

\* a finished run, every stage executed, four flows created before the
\* attachment
C9_Witness ==
    /\ pc = "Done"
    /\ Count("CreateFlow") = 4
    /\ Executed("AttachToClosestGnb")
    /\ Executed("ConfigureChannel")

\* C10: every terminal is attached exactly once, with its device installed
\* and its address assigned, and all terminals are attached before the event
\* loop starts.
C10_AttachOnce ==
    /\ Count("AttachToClosestGnb") <= 1
    /\ \A k \in DOMAIN attached :
          /\ attached[k] = 1
          /\ k \in DOMAIN ueNetDev
          /\ k \in DOMAIN ueIpIface
    /\ sim.state # "idle" => DOMAIN attached = hexGrid.ueNodes

\* four terminals attached, the simulator not yet started
C10_Witness ==
    /\ pc = "StartStopApps"
    /\ DOMAIN attached = 0..3
    /\ \A k \in 0..3 : attached[k] = 1 /\ ueIpIface[k] = <<7, 0, 0, k + 2>>
    /\ sim.state = "idle"

\* an operation of DeviceProvisioner has run, or a device exists
ProvisioningBegun ==
    \/ \E i \in 1..Len(log) : Stage(log[i]) = 3
    \/ gNbNetDev # <<>>
    \/ ueNetDev # <<>>

\* C11 (states): no terminal has its position or its velocity set more than
\* once, and once device provisioning has begun every terminal has had its
\* position overridden once, with the position of lines 194-202, and its
\* velocity assigned once.
C11_PlacedBeforeProvisioning ==
    /\ \A i \in DOMAIN ue :
          ue[i].setPositionCalls <= 1 /\ ue[i].setVelocityCalls <= 1
    /\ Count("SetPosition") <= GetN(hexGrid.ueNodes)
    /\ Count("SetVelocity") <= GetN(hexGrid.ueNodes)
    /\ ProvisioningBegun =>
          /\ DOMAIN ue = hexGrid.ueNodes
          /\ Count("SetPosition") = v.numUes
          /\ Count("SetVelocity") = v.numUes
          /\ \A i \in DOMAIN ue :
                /\ ue[i].setPositionCalls = 1
                /\ ue[i].setVelocityCalls = 1
                /\ ue[i].position # <<>>

\* C11: each terminal's position is overridden exactly once, that override
\* and the velocity assignment happen before any device is provisioned, and
\* no position or velocity is written once provisioning has begun.
C11_MobilityFrozen ==
    /\ []C11_PlacedBeforeProvisioning
    /\ [][ProvisioningBegun => ue' = ue]_vars
    /\ [][(gNbNetDev' # gNbNetDev \/ ueNetDev' # ueNetDev) =>
             (ue' = ue /\ \A i \in hexGrid.ueNodes :
                             ue[i].setPositionCalls = 1
                             /\ ue[i].setVelocityCalls = 1)]_vars

\* the base-station devices are installed, the four terminals placed and
\* moving since before
C11_Witness ==
    /\ pc = "InstallUeDevice"
    /\ gNbNetDev # <<>>
    /\ v.numUes = 4
    /\ \A i \in 0..3 : ue[i].setPositionCalls = 1 /\ ue[i].setVelocityCalls = 1
    /\ ue[1].position = <<500, -300, 15>>
=============================================================================
